---- MODULE Spec2Model ----
(***************************************************************************)
(* The to-do list of src/app/index.tsx: the App component's state (todos,  *)
(* the add/edit modal), its two effects (Load on mount, write-back on      *)
(* every change of todos) and the AsyncStorage key they read and write.    *)
(*                                                                         *)
(* Strings are sequences of one-character strings, so that trim,           *)
(* JSON.stringify and JSON.parse are computed and not assumed.             *)
(*                                                                         *)
(* The TextInput is controlled by useState and the user can replace its    *)
(* text at any moment, so the text is chosen when Save is pressed and is   *)
(* not a variable.  AsyncStorage serves the calls made of it one at a      *)
(* time; the component awaits none of its setItem calls, and the order in  *)
(* which outstanding calls are served is not fixed.                        *)
(***************************************************************************)
EXTENDS Integers, Sequences, FiniteSets, TLC

(* ----------------------------- bounds --------------------------------- *)

\* calls of handleSave, handleDelete and handleToggle in a behaviour
MaxCalls == 2

(* ----------------------------- strings -------------------------------- *)

Space == " "
Quote == "'"

\* what the TextInput holds when Save is pressed: nothing, white space only,
\* a text, and texts with white space before, after and inside
Inputs == {<<>>, <<Space>>, <<Space, "b", Space>>, <<"b", Space, "c">>}

RECURSIVE TrimStart(_)
TrimStart(s) ==
    IF s # <<>> /\ Head(s) = Space THEN TrimStart(Tail(s)) ELSE s

RECURSIVE TrimEnd(_)
TrimEnd(s) ==
    IF s # <<>> /\ s[Len(s)] = Space THEN TrimEnd(SubSeq(s, 1, Len(s) - 1)) ELSE s

\* String.prototype.trim
Trim(s) == TrimEnd(TrimStart(s))

(* ------------------------------ tasks --------------------------------- *)

\* editingId = null
Null == ""

Todo(id, text, completed) == [id |-> id, text |-> text, completed |-> completed]

\* uuid without its time stamp and with a repeating random part
uuidRepeats(n) == ToString(1)

\* Math.random().toString(36).substring(2, 10) + Date.now(): a token that no
\* earlier call returned; n is the reading of the clock, which has advanced
\* since the previous call
uuid(n) == ToString(n)

IdsOf(list) == {list[i].id : i \in 1..Len(list)}

\* the ids a handler can be called with: those of the list, and one that no
\* task has
HandlerIds(list) == IdsOf(list) \cup {uuid(0)}

(* --------------------------- serialization ---------------------------- *)

RECURSIVE StringifyItems(_)
StringifyItems(list) ==
    IF list = <<>> THEN <<>>
    ELSE <<"{", list[1].id, Quote>> \o list[1].text
         \o <<Quote, IF list[1].completed THEN "true" ELSE "false", "}">>
         \o StringifyItems(Tail(list))

\* JSON.stringify of an array of Todo
Stringify(list) == <<"[">> \o StringifyItems(list) \o <<"]">>

\* position of the first Quote of s at or after i, 0 when there is none
RECURSIVE QuoteAt(_, _)
QuoteAt(s, i) ==
    IF i > Len(s) THEN 0
    ELSE IF s[i] = Quote THEN i
    ELSE QuoteAt(s, i + 1)

ParseError == [kind |-> "error", val |-> <<>>]

\* the objects of an array's body; acc is what was parsed so far
RECURSIVE ParseItems(_, _)
ParseItems(s, acc) ==
    IF s = <<>> THEN [kind |-> "list", val |-> acc]
    ELSE IF Len(s) < 6 \/ s[1] # "{" \/ s[3] # Quote THEN ParseError
    ELSE LET q == QuoteAt(s, 4) IN
         IF q = 0 \/ Len(s) < q + 2 THEN ParseError
         ELSE IF s[q + 1] \notin {"true", "false"} \/ s[q + 2] # "}" THEN ParseError
         ELSE ParseItems(SubSeq(s, q + 3, Len(s)),
                         Append(acc, Todo(s[2], SubSeq(s, 4, q - 1), s[q + 1] = "true")))

\* JSON.parse: "list" with the array, "null" for the JSON value null,
\* "error" when it throws
Parse(s) ==
    IF s = <<"null">> THEN [kind |-> "null", val |-> <<>>]
    ELSE IF Len(s) < 2 \/ s[1] # "[" \/ s[Len(s)] # "]" THEN ParseError
    ELSE ParseItems(SubSeq(s, 2, Len(s) - 1), <<>>)

(* ------------------------- the list operations ------------------------ *)

\* an edit that rebuilds the task and so loses its completed flag
EditRebuilds(prev, id, text) ==
    [i \in 1..Len(prev) |->
        IF prev[i].id = id THEN Todo(id, text, FALSE) ELSE prev[i]]

\* the updater of handleSave's edit branch: prev.map(...)
EditTodos(prev, id, text) ==
    [i \in 1..Len(prev) |->
        IF prev[i].id = id THEN [prev[i] EXCEPT !.text = text] ELSE prev[i]]

\* an add that appends: [...prev, {...}]
AddTodoLast(prev, id, text) == Append(prev, Todo(id, text, FALSE))

\* the updater of handleSave's add branch: [{...}, ...prev]
AddTodo(prev, id, text) == <<Todo(id, text, FALSE)>> \o prev

\* a toggle that marks the task completed instead of flipping the flag
ToggleSetsCompleted(prev, id) ==
    [i \in 1..Len(prev) |->
        IF prev[i].id = id THEN [prev[i] EXCEPT !.completed = TRUE] ELSE prev[i]]

\* the updater of handleToggle
ToggleTodos(prev, id) ==
    [i \in 1..Len(prev) |->
        IF prev[i].id = id THEN [prev[i] EXCEPT !.completed = ~prev[i].completed]
        ELSE prev[i]]

\* a delete whose filter compares the wrong way: t.id === id
RECURSIVE FilterKeepsMatch(_, _)
FilterKeepsMatch(prev, id) ==
    IF prev = <<>> THEN <<>>
    ELSE IF prev[1].id = id THEN <<prev[1]>> \o FilterKeepsMatch(Tail(prev), id)
    ELSE FilterKeepsMatch(Tail(prev), id)

\* the updater of handleDelete: prev.filter(t => t.id !== id)
RECURSIVE FilterOut(_, _)
FilterOut(prev, id) ==
    IF prev = <<>> THEN <<>>
    ELSE IF prev[1].id # id THEN <<prev[1]>> \o FilterOut(Tail(prev), id)
    ELSE FilterOut(Tail(prev), id)

(* ------------------------------ state --------------------------------- *)

VARIABLES
    todos,          \* useState<Todo[]>: the in-memory list
    modalVisible,   \* useState(false)
    editingId,      \* useState<string | null>(null)
    crashed,        \* setTodos(null) was called, todos.length throws in render and
                    \* the component is gone (todos is kept as <<>>)
    loadState,      \* "pending": getItem outstanding; "resolved": its promise
                    \* is fulfilled; "done": loadTodos has returned
    loadData,       \* what getItem resolved with: <<>> is null, <<s>> the string s
    storage,        \* the value under STORAGE_KEY: <<>> absent, <<s>> the string s
    ops,            \* the AsyncStorage calls issued and not yet served
    now,            \* Date.now() of the next uuid() call
    calls,          \* handler calls so far
    startBlob,      \* storage as it was when this process started
    mutated,        \* a handler has changed todos since this process started
    atExit,         \* when the previous process exited after a Create whose list was
                    \* in storage: that call's text and that list
    last            \* the last call that set todos: its arguments and the list before it

vars == <<todos, modalVisible, editingId, crashed, loadState, loadData,
          storage, ops, now, calls, startBlob, mutated, atExit, last>>

GetOp == [type |-> "get", val |-> <<>>]
SetOp(s) == [type |-> "set", val |-> s]

Call(op, id, text, prev) == [op |-> op, id |-> id, text |-> text, prev |-> prev]

\* the effects of the first render: loadTodos() calls getItem, and the
\* persist effect calls setItem with JSON.stringify([])
MountOps == <<GetOp, SetOp(Stringify(<<>>))>>

\* what STORAGE_KEY can hold when the app first starts: nothing, a list an
\* earlier run wrote (empty or not), text that is not JSON, the JSON value null
StoredList == <<Todo(uuid(2), <<"a", "a">>, FALSE), Todo(uuid(1), <<"a">>, TRUE)>>
InitStorage ==
    {<<>>, <<Stringify(<<>>)>>, <<Stringify(StoredList)>>, <<<<"[", "{">>>>, <<<<"null">>>>}

Init ==
    /\ todos = <<>>
    /\ modalVisible = FALSE
    /\ editingId = Null
    /\ crashed = FALSE
    /\ loadState = "pending"
    /\ loadData = <<>>
    /\ storage \in InitStorage
    /\ ops = MountOps
    /\ now = Len(StoredList) + 1
    /\ calls = 0
    /\ startBlob = storage
    /\ mutated = FALSE
    /\ atExit = Call("none", Null, <<>>, <<>>)
    /\ last = Call("mount", Null, <<>>, <<>>)

Remove(s, i) == SubSeq(s, 1, i - 1) \o SubSeq(s, i + 1, Len(s))

\* the persist effect: runs after every render in which todos changed
Persist(list) == Append(ops, SetOp(Stringify(list)))

\* the handlers are attached while the component is mounted; the user makes
\* MaxCalls calls of them at most
UserCanAct == ~crashed /\ calls < MaxCalls

\* the Modal covers the list while it is shown
ListCanAct == UserCanAct /\ ~modalVisible

(* ------------------------------ actions ------------------------------- *)

openAddModal ==
    /\ UserCanAct /\ ~modalVisible
    /\ editingId' = Null
    /\ modalVisible' = TRUE
    /\ UNCHANGED <<todos, crashed, loadState, loadData, storage, ops, now,
                   calls, startBlob, mutated, atExit, last>>

openEditModal ==
    /\ UserCanAct /\ ~modalVisible
    /\ \E i \in 1..Len(todos) :
          /\ editingId' = todos[i].id
    /\ modalVisible' = TRUE
    /\ UNCHANGED <<todos, crashed, loadState, loadData, storage, ops, now,
                   calls, startBlob, mutated, atExit, last>>

\* Cancel and onRequestClose: setModalVisible(false)
closeModal ==
    /\ UserCanAct /\ modalVisible
    /\ modalVisible' = FALSE
    /\ UNCHANGED <<todos, editingId, crashed, loadState, loadData,
                   storage, ops, now, calls, startBlob, mutated, atExit, last>>

\* the Save button and onSubmitEditing; input is the TextInput's text
handleSave ==
    /\ UserCanAct /\ modalVisible
    /\ \E input \in Inputs :
          /\ last' = Call("save", editingId, input, todos)
          /\ IF Trim(input) = <<>>
             THEN UNCHANGED <<todos, modalVisible, editingId, ops, now, mutated>>
             ELSE /\ IF editingId # Null
                     THEN /\ todos' = EditTodos(todos, editingId, Trim(input))
                          /\ now' = now
                     ELSE /\ todos' = AddTodo(todos, uuid(now), Trim(input))
                          /\ now' = now + 1
                  /\ ops' = Persist(todos')
                  /\ modalVisible' = FALSE
                  /\ editingId' = Null
                  /\ mutated' = TRUE
    /\ calls' = calls + 1
    /\ UNCHANGED <<crashed, loadState, loadData, storage, startBlob, atExit>>

handleDelete ==
    /\ ListCanAct
    /\ \E id \in HandlerIds(todos) :
          /\ last' = Call("delete", id, <<>>, todos)
          /\ todos' = FilterOut(todos, id)
    /\ ops' = Persist(todos')
    /\ mutated' = TRUE
    /\ calls' = calls + 1
    /\ UNCHANGED <<modalVisible, editingId, crashed, loadState, loadData,
                   storage, now, startBlob, atExit>>

handleToggle ==
    /\ ListCanAct
    /\ \E id \in HandlerIds(todos) :
          /\ last' = Call("toggle", id, <<>>, todos)
          /\ todos' = ToggleTodos(todos, id)
    /\ ops' = Persist(todos')
    /\ mutated' = TRUE
    /\ calls' = calls + 1
    /\ UNCHANGED <<modalVisible, editingId, crashed, loadState, loadData,
                   storage, now, startBlob, atExit>>

\* AsyncStorage serves the outstanding getItem
serveGet ==
    /\ \E i \in 1..Len(ops) :
          /\ ops[i].type = "get"
          /\ ops' = Remove(ops, i)
    /\ loadData' = storage
    /\ loadState' = "resolved"
    /\ UNCHANGED <<todos, modalVisible, editingId, crashed, storage, now,
                   calls, startBlob, mutated, atExit, last>>

\* AsyncStorage serves one of the outstanding setItem calls
serveSet ==
    /\ \E i \in 1..Len(ops) :
          /\ ops[i].type = "set"
          /\ storage' = <<ops[i].val>>
          /\ ops' = Remove(ops, i)
    /\ UNCHANGED <<todos, modalVisible, editingId, crashed, loadState,
                   loadData, now, calls, startBlob, mutated, atExit, last>>

\* loadTodos after its await.  A render with todos = null throws at
\* todos.length; while useFonts has not loaded the fonts, the render returns
\* before that line and the persist effect still writes JSON.stringify(null)
loadTodos ==
    /\ ~crashed /\ loadState = "resolved"
    /\ loadState' = "done"
    /\ last' = Call("load", Null, <<>>, todos)
    /\ IF loadData = <<>> \/ loadData[1] = <<>>
       THEN UNCHANGED <<todos, crashed, ops>>
       ELSE LET p == Parse(loadData[1]) IN
            CASE p.kind = "error" -> UNCHANGED <<todos, crashed, ops>>
              [] p.kind = "null" -> /\ crashed' = TRUE
                                    /\ todos' = <<>>
                                    /\ \E fontsLoaded \in BOOLEAN :
                                          ops' = IF fontsLoaded THEN ops
                                                 ELSE Append(ops, SetOp(<<"null">>))
              [] p.kind = "list" -> /\ todos' = p.val
                                    /\ ops' = Persist(p.val)
                                    /\ crashed' = FALSE
    /\ UNCHANGED <<modalVisible, editingId, loadData, storage, now,
                   calls, startBlob, mutated, atExit>>

\* the process exits, its outstanding calls are lost, and the app is started again
restart ==
    /\ todos' = <<>>
    /\ modalVisible' = FALSE
    /\ editingId' = Null
    /\ crashed' = FALSE
    /\ loadState' = "pending"
    /\ loadData' = <<>>
    /\ ops' = MountOps
    /\ startBlob' = storage
    /\ mutated' = FALSE
    /\ atExit' = IF /\ ~crashed
                    /\ last.op = "save" /\ last.id = Null /\ Trim(last.text) # <<>>
                    /\ storage = <<Stringify(todos)>>
                 THEN Call("create", Null, last.text, todos)
                 ELSE Call("none", Null, <<>>, <<>>)
    /\ last' = Call("mount", Null, <<>>, <<>>)
    /\ UNCHANGED <<storage, now, calls>>

Next ==
    \/ openAddModal
    \/ openEditModal
    \/ closeModal
    \/ handleSave
    \/ handleDelete
    \/ handleToggle
    \/ serveGet
    \/ serveSet
    \/ loadTodos
    \/ restart

Spec == Init /\ [][Next]_vars

(* ---------------------------- properties ------------------------------ *)

\* the positions of list whose task has this id
Matches(list, id) == {i \in 1..Len(list) : list[i].id = id}

\* the positions at which two lists of the same length differ
Changed(a, b) == {i \in 1..Len(a) : a[i] # b[i]}

IsAdd == last.op = "save" /\ last.id = Null /\ Trim(last.text) # <<>>
IsEdit == last.op = "save" /\ last.id # Null

\* C1: a save in add mode whose trimmed input is not empty turns the list L
\* into [t] followed by L: t.text is the trimmed input, t.completed is false,
\* t.id is the id of no task of L, and L is kept as it was, in its order.
C1_CreatePrepends ==
    IsAdd =>
        /\ Len(todos) = Len(last.prev) + 1
        /\ todos[1].text = Trim(last.text)
        /\ todos[1].completed = FALSE
        /\ todos[1].id # Null
        /\ todos[1].id \notin IdsOf(last.prev)
        /\ Tail(todos) = last.prev

\* a Create whose input had white space to trim, onto a list of two tasks
C1_Witness ==
    /\ IsAdd
    /\ Trim(last.text) # last.text
    /\ Len(last.prev) >= 2
    /\ Len(todos) = 3

\* C2: a Toggle flips the completed flag of the task with that id and leaves
\* every other task and the order as they were; a second Toggle of the same
\* id gives back the list before the first; an id that is not in the list
\* leaves the list as it was.
C2_ToggleInvolution ==
    last.op = "toggle" =>
        /\ Len(todos) = Len(last.prev)
        /\ \A i \in 1..Len(todos) :
              /\ todos[i].id = last.prev[i].id
              /\ todos[i].text = last.prev[i].text
              /\ todos[i].completed =
                    IF last.prev[i].id = last.id THEN ~last.prev[i].completed
                    ELSE last.prev[i].completed
        /\ Cardinality(Changed(todos, last.prev)) <= 1
        /\ ToggleTodos(todos, last.id) = last.prev
        /\ (last.id \notin IdsOf(last.prev) => todos = last.prev)

\* a Toggle of a completed task of a list that holds another task
C2_Witness ==
    /\ last.op = "toggle"
    /\ Len(last.prev) >= 2
    /\ \E i \in Matches(last.prev, last.id) : last.prev[i].completed /\ ~todos[i].completed

\* C3: a Delete removes exactly the one task with that id and keeps the
\* others, with their fields, in their order; an id that is not in the list
\* leaves the list as it was.
C3_DeleteRemovesOne ==
    last.op = "delete" =>
        IF last.id \in IdsOf(last.prev)
        THEN \E j \in Matches(last.prev, last.id) : todos = Remove(last.prev, j)
        ELSE todos = last.prev

\* a Delete of a task of a list of two or more
C3_Witness ==
    /\ last.op = "delete"
    /\ last.id \in IdsOf(last.prev)
    /\ Len(last.prev) >= 2
    /\ Len(todos) = Len(last.prev) - 1

\* C4: a save while editingId = id sets the text of the task with that id to
\* the trimmed input and keeps its id, completed flag and position and every
\* other task; it leaves the list as it was when the trimmed input is empty
\* and when no task has that id.
C4_EditChangesOnlyText ==
    IsEdit =>
        IF Trim(last.text) = <<>> THEN todos = last.prev
        ELSE /\ Len(todos) = Len(last.prev)
             /\ \A i \in 1..Len(todos) :
                   /\ todos[i].id = last.prev[i].id
                   /\ todos[i].completed = last.prev[i].completed
                   /\ todos[i].text =
                         IF last.prev[i].id = last.id THEN Trim(last.text)
                         ELSE last.prev[i].text
             /\ Cardinality(Changed(todos, last.prev)) <= 1
             /\ (last.id \notin IdsOf(last.prev) => todos = last.prev)

\* an Edit of a completed task, in a list of two or more, whose input had
\* white space to trim
C4_Witness ==
    /\ IsEdit
    /\ Trim(last.text) # <<>>
    /\ Trim(last.text) # last.text
    /\ Len(last.prev) >= 2
    /\ \E i \in Matches(last.prev, last.id) :
          last.prev[i].completed /\ todos[i].text # last.prev[i].text

NoWriteOutstanding == \A i \in 1..Len(ops) : ops[i].type # "set"

\* C6: once every issued write has completed, storage holds the
\* serialization of the in-memory list, whatever the order in which the
\* writes completed.
C6_WriteBackConverges ==
    (~crashed /\ NoWriteOutstanding) => storage = <<Stringify(todos)>>

IsStoredList(blob) == blob # <<>> /\ Parse(blob[1]).kind = "list"

\* C7: when storage holds nothing, or something that does not deserialize
\* into a list of tasks, the list after Load is empty and the app goes on
\* with a valid list.
C7_LoadFallsBackToEmpty ==
    (loadState = "done" /\ ~mutated /\ ~IsStoredList(loadData)) =>
        (todos = <<>> /\ ~crashed)

\* C8: after a Create whose list reached storage and a restart, the list
\* once Load has completed is the list of before the restart: its first task
\* has the trimmed text and is not completed.
C8_CreateSurvivesRestart ==
    (atExit.op = "create" /\ loadState = "done" /\ ~mutated) =>
        /\ ~crashed
        /\ todos = atExit.prev
        /\ todos[1].text = Trim(atExit.text)
        /\ ~todos[1].completed

\* C9: every task that the user's calls had put in the list when Load
\* completed is in the list after Load.
C9_LoadKeepsUserChanges ==
    (last.op = "load" /\ ~crashed) =>
        \A i \in 1..Len(last.prev) : \E j \in 1..Len(todos) : todos[j] = last.prev[i]

\* C10: from process start until the user's first call, storage that held
\* the serialization of a list at start still deserializes to that list.
C10_StartupKeepsStorage ==
    (~mutated /\ IsStoredList(startBlob)) =>
        (IsStoredList(storage) /\ Parse(storage[1]).val = Parse(startBlob[1]).val)

====
